---- MODULE Spec2Model ----
(***************************************************************************)
(* The zolldo to-do list manager: the TaskManager store of                 *)
(* src/src/zolldo/zolldo.py (the current iteration, with CLI and GUI front *)
(* ends) and of src/zolldo.py (the earlier CLI-only iteration), its        *)
(* persisted JSON document todo.json, and the front-end validation that    *)
(* guards the store.                                                       *)
(*                                                                         *)
(* Texts are sequences of one-character strings, so that strip(), int()    *)
(* and str() are computed.  Due-date texts are sequences of tokens: a      *)
(* date-time body ("D0", "D1"), optionally followed by a UTC-offset token. *)
(***************************************************************************)
EXTENDS Integers, Sequences, FiniteSets, TLC

VARIABLES
  impl,       \* which source file runs: "current" or "legacy"
  task_dict,  \* TaskManager.task_dict: insertion-ordered <<id, task>> pairs
  max_id,     \* TaskManager.max_id
  doc,        \* the file todo.json
  faults,     \* number of I/O failures the environment will still inject
  last,       \* history: the operation performed last and its outcome
  track,      \* history: what this specification records besides last: "ids"
              \*          for the three below, "fields" for the fields that
              \*          updates supply, "none"
  retired,    \* history: ids of tasks that have been deleted
  auto_ids,   \* history: ids assigned by add-without-id since a store was
              \*          constructed empty, while no other operation ran
  only_auto,  \* history: TRUE while the above condition still holds
  listed,     \* what the list subcommand was asked last and what it printed
  display,    \* whether this specification runs gui() and so has the four below
  sort_var,   \* gui: the value of the sort dropdown
  filter_var, \* gui: the value of the filter dropdown
  rows,       \* gui: ids of the task rows in scrollable_frame, top to bottom
  checkbox_vars \* gui: keys of the dict checkbox_vars, in insertion order

widgets == <<display, sort_var, filter_var, rows, checkbox_vars>>

vars == <<impl, task_dict, max_id, doc, faults, last, track, retired, auto_ids,
          only_auto, listed, widgets>>

-----------------------------------------------------------------------------
(* Bounds *)

MaxId == 3        \* ids that requests may name or generation may reach
MaxTasks == 2     \* tasks held at once
MaxFaults == 1    \* I/O failures the environment injects in one behaviour

-----------------------------------------------------------------------------
(* Python values *)

None == [some |-> FALSE]
Some(v) == [some |-> TRUE, val |-> v]

Ok(v) == [exc |-> "none", val |-> v]
Raise(e) == [exc |-> e]

Max(a, b) == IF a < b THEN b ELSE a

DigitChars == <<"0", "1", "2", "3", "4", "5", "6", "7", "8", "9">>

IsDigit(c) == \E i \in 1..10 : DigitChars[i] = c

DigitVal(c) == (CHOOSE i \in 1..10 : DigitChars[i] = c) - 1

IsSpace(c) == c = " "

RECURSIVE lstrip(_)
lstrip(s) == IF s # <<>> /\ IsSpace(s[1]) THEN lstrip(Tail(s)) ELSE s

RECURSIVE rstrip(_)
rstrip(s) ==
  IF s # <<>> /\ IsSpace(s[Len(s)]) THEN rstrip(SubSeq(s, 1, Len(s) - 1)) ELSE s

\* str.strip()
strip(s) == rstrip(lstrip(s))

RECURSIVE DigitsVal(_)
DigitsVal(s) ==
  IF s = <<>> THEN 0
  ELSE 10 * DigitsVal(SubSeq(s, 1, Len(s) - 1)) + DigitVal(s[Len(s)])

\* int(text): surrounding whitespace, an optional sign, one or more digits
int(s) ==
  LET t == strip(s)
      signed == t # <<>> /\ t[1] \in {"-", "+"}
      body == IF signed THEN Tail(t) ELSE t
  IN IF body # <<>> /\ \A i \in 1..Len(body) : IsDigit(body[i])
     THEN Ok(IF signed /\ t[1] = "-" THEN 0 - DigitsVal(body) ELSE DigitsVal(body))
     ELSE Raise("ValueError")

RECURSIVE NatStr(_)
NatStr(n) ==
  IF n < 10 THEN <<DigitChars[n + 1]>>
  ELSE NatStr(n \div 10) \o <<DigitChars[(n % 10) + 1]>>

\* str(int), which json.dump applies to the integer keys
str(n) == IF n < 0 THEN <<"-">> \o NatStr(0 - n) ELSE NatStr(n)

-----------------------------------------------------------------------------
(* datetime: wall clock reading and UTC offset, both in hours *)

LocalUtcOffset == 1

BodyToks == <<"D0", "D1">>

IsBody(tok) == \E i \in 1..Len(BodyToks) : BodyToks[i] = tok

BodyVal(tok) == (CHOOSE i \in 1..Len(BodyToks) : BodyToks[i] = tok) - 1

IsOffset(tok) == tok \in {"Z", "+00:00", "+01:00"}

OffsetVal(tok) == IF tok = "+01:00" THEN 1 ELSE 0

OffsetTok(off) == IF off = 1 THEN "+01:00" ELSE "+00:00"

\* datetime.fromisoformat
fromisoformat(text) ==
  IF Len(text) = 1 /\ IsBody(text[1])
    THEN Ok([wall |-> BodyVal(text[1]), tzinfo |-> None])
  ELSE IF Len(text) = 2 /\ IsBody(text[1]) /\ IsOffset(text[2])
    THEN Ok([wall |-> BodyVal(text[1]), tzinfo |-> Some(OffsetVal(text[2]))])
  ELSE Raise("ValueError")

\* datetime.isoformat
isoformat(date) ==
  IF date.tzinfo.some
    THEN <<BodyToks[date.wall + 1], OffsetTok(date.tzinfo.val)>>
    ELSE <<BodyToks[date.wall + 1]>>

\* datetime.astimezone() of a naive value: the wall clock is read as local time
astimezone(date) ==
  IF date.tzinfo.some
    THEN [wall |-> date.wall - date.tzinfo.val + LocalUtcOffset,
          tzinfo |-> Some(LocalUtcOffset)]
    ELSE [wall |-> date.wall, tzinfo |-> Some(LocalUtcOffset)]

\* the point in time an aware datetime denotes
Instant(date) == date.wall - date.tzinfo.val

-----------------------------------------------------------------------------
(* dict[int, Task], insertion ordered *)

Keys(d) == {d[i][1] : i \in DOMAIN d}

IndexOf(d, k) == CHOOSE i \in DOMAIN d : d[i][1] = k

GetItem(d, k) == d[IndexOf(d, k)][2]

\* d[k] = v
SetItem(d, k, v) ==
  IF k \in Keys(d) THEN [d EXCEPT ![IndexOf(d, k)] = <<k, v>>]
  ELSE Append(d, <<k, v>>)

\* del d[k]
DelItem(d, k) ==
  LET i == IndexOf(d, k)
  IN SubSeq(d, 1, i - 1) \o SubSeq(d, i + 1, Len(d))

MaxKey(d) == CHOOSE k \in Keys(d) : \A j \in Keys(d) : j <= k

\* reversed(d.items())
reversed(d) == [i \in DOMAIN d |-> d[Len(d) + 1 - i]]

\* the characters that occur, in code point order
CodePoints == <<" ", "-", "0", "1", "2", "3", "4", "5", "6", "7", "8", "9",
                "?", "B", "a", "b", "d", "x">>

ord(c) == CHOOSE i \in DOMAIN CodePoints : CodePoints[i] = c

\* s < t for str: the first differing character decides, a proper prefix is less
RECURSIVE StrLess(_, _)
StrLess(s, t) ==
  IF t = <<>> THEN FALSE
  ELSE IF s = <<>> THEN TRUE
  ELSE IF s[1] # t[1] THEN ord(s[1]) < ord(t[1])
  ELSE StrLess(Tail(s), Tail(t))

\* a < b for aware datetimes: the earlier point in time
DateLess(a, b) == Instant(a) < Instant(b)

\* sorted(d.items(), key=...): stable, so a pair comes behind the pairs that
\* are less than it and behind the earlier pairs that are not greater
sorted(d, Less(_, _)) ==
  LET Before(i) == {j \in DOMAIN d :
                      Less(d[j], d[i]) \/ (j < i /\ ~Less(d[i], d[j]))}
  IN [p \in DOMAIN d |->
        d[CHOOSE i \in DOMAIN d : Cardinality(Before(i)) = p - 1]]

-----------------------------------------------------------------------------
(* The file todo.json *)

NoFile == [kind |-> "absent"]
Truncated == [kind |-> "truncated"]
Json(body) == [kind |-> "json", body |-> body]

\* datetime_serializer writing the wall clock reading as if it were UTC
datetime_serializer_as_utc(obj) == <<BodyToks[obj.wall + 1], OffsetTok(0)>>

\* json.dump(self.task_dict, file, default=self.datetime_serializer)
datetime_serializer(obj) == isoformat(obj)

dump(d) ==
  Json([i \in DOMAIN d |->
          <<str(d[i][1]), [d[i][2] EXCEPT !.due_date = datetime_serializer(@)]>>])

\* json.load followed by the key and due-date conversions of __init__
load(body) ==
  [i \in DOMAIN body |->
     <<int(body[i][1]).val,
       [body[i][2] EXCEPT !.due_date = fromisoformat(@).val]>>]

Faults == {"none", "open", "write"}


-----------------------------------------------------------------------------
(* TaskManager *)

\* __init__ taking the number of tasks for the largest id
TaskManager_init_counts(file) ==
  IF file.kind = "absent" THEN Ok([task_dict |-> <<>>, max_id |-> 0])
  ELSE IF file.kind = "truncated" THEN Raise("JSONDecodeError")
  ELSE LET d == load(file.body)
       IN Ok([task_dict |-> d, max_id |-> Len(d)])

\* TaskManager.__init__: the store a process starts with
TaskManager_init(file) ==
  IF file.kind = "absent" THEN Ok([task_dict |-> <<>>, max_id |-> 0])
  ELSE IF file.kind = "truncated" THEN Raise("JSONDecodeError")
  ELSE LET d == load(file.body)
       IN Ok([task_dict |-> d,
              max_id |-> IF Len(d) > 0 THEN MaxKey(d) ELSE 0])

\* TaskManager.save of src/src/zolldo/zolldo.py.  open(.., "w") truncates the
\* file before json.dump writes; a failure while writing leaves it truncated.
save_current(d, file, fault) ==
  IF fault = "open" THEN [doc |-> file, exc |-> "OSError"]
  ELSE IF fault = "write" THEN [doc |-> Truncated, exc |-> "OSError"]
  ELSE [doc |-> dump(d), exc |-> "none"]

\* TaskManager.save of src/zolldo.py: json.dump(task_dict, ...) names a global
\* that does not exist, so the call raises NameError after open() truncated.
save_legacy(d, file, fault) ==
  IF fault = "open" THEN [doc |-> file, exc |-> "OSError"]
  ELSE [doc |-> Truncated, exc |-> "NameError"]

save(which, d, file, fault) ==
  IF which = "legacy" THEN save_legacy(d, file, fault)
  ELSE save_current(d, file, fault)

\* gen_id without the raise of max_id to a requested id
gen_id_keeps_max(m, id) ==
  IF ~id.some THEN [id |-> m + 1, max_id |-> m + 1]
  ELSE [id |-> id.val, max_id |-> m]

\* gen_id returning the counter before incrementing it
gen_id_returns_old(m, id) ==
  IF ~id.some THEN [id |-> m, max_id |-> m + 1]
  ELSE [id |-> id.val, max_id |-> IF m < id.val THEN id.val ELSE m]

\* gen_id setting max_id to every requested id
gen_id_sets_max(m, id) ==
  IF ~id.some THEN [id |-> m + 1, max_id |-> m + 1]
  ELSE [id |-> id.val, max_id |-> id.val]

\* TaskManager.gen_id
gen_id(m, id) ==
  IF ~id.some THEN [id |-> m + 1, max_id |-> m + 1]
  ELSE [id |-> id.val, max_id |-> IF m < id.val THEN id.val ELSE m]

\* TaskManager.add_task
add_task(which, d, m, file, fault, title, due_date, description, completed, id) ==
  LET task == [title |-> title, due_date |-> due_date,
               completed |-> completed, description |-> description]
      g == gen_id(m, id)
      d2 == SetItem(d, g.id, task)
      s == save(which, d2, file, fault)
  IN [task_dict |-> d2, max_id |-> g.max_id, doc |-> s.doc, exc |-> s.exc,
      ret |-> g.id]

\* update_task creating the task when the id is unknown
update_task_upsert(which, d, m, file, fault, id, title, due_date, description, completed) ==
  LET t0 == IF id \in Keys(d) THEN GetItem(d, id)
            ELSE [title |-> <<>>, due_date |-> [wall |-> 0, tzinfo |-> Some(0)],
                  completed |-> FALSE, description |-> <<>>]
      t1 == IF title.some THEN [t0 EXCEPT !.title = title.val] ELSE t0
      t2 == IF due_date.some THEN [t1 EXCEPT !.due_date = due_date.val] ELSE t1
      t3 == IF description.some THEN [t2 EXCEPT !.description = description.val] ELSE t2
      t4 == IF completed.some THEN [t3 EXCEPT !.completed = completed.val] ELSE t3
      d2 == SetItem(d, id, t4)
      s == save(which, d2, file, fault)
  IN [task_dict |-> d2, max_id |-> m, doc |-> s.doc, exc |-> s.exc, ret |-> 0]

\* update_task testing the supplied values for truth instead of for None
update_task_truthy(which, d, m, file, fault, id, title, due_date, description, completed) ==
  IF id \notin Keys(d)
  THEN [task_dict |-> d, max_id |-> m, doc |-> file, exc |-> "KeyError", ret |-> 0]
  ELSE
    LET t0 == GetItem(d, id)
        t1 == IF title.some /\ title.val # <<>>
              THEN [t0 EXCEPT !.title = title.val] ELSE t0
        t2 == IF due_date.some THEN [t1 EXCEPT !.due_date = due_date.val] ELSE t1
        t3 == IF description.some /\ description.val # <<>>
              THEN [t2 EXCEPT !.description = description.val] ELSE t2
        t4 == IF completed.some /\ completed.val
              THEN [t3 EXCEPT !.completed = completed.val] ELSE t3
        d2 == SetItem(d, id, t4)
        s == save(which, d2, file, fault)
    IN [task_dict |-> d2, max_id |-> m, doc |-> s.doc, exc |-> s.exc, ret |-> 0]

\* TaskManager.update_task
update_task(which, d, m, file, fault, id, title, due_date, description, completed) ==
  IF id \notin Keys(d)
  THEN [task_dict |-> d, max_id |-> m, doc |-> file, exc |-> "KeyError", ret |-> 0]
  ELSE
    LET t0 == GetItem(d, id)
        t1 == IF title.some THEN [t0 EXCEPT !.title = title.val] ELSE t0
        t2 == IF due_date.some THEN [t1 EXCEPT !.due_date = due_date.val] ELSE t1
        t3 == IF description.some THEN [t2 EXCEPT !.description = description.val] ELSE t2
        t4 == IF completed.some THEN [t3 EXCEPT !.completed = completed.val] ELSE t3
        d2 == SetItem(d, id, t4)
        s == save(which, d2, file, fault)
    IN [task_dict |-> d2, max_id |-> m, doc |-> s.doc, exc |-> s.exc, ret |-> 0]

\* delete_task recomputing max_id from the keys that remain
delete_task_recount(which, d, m, file, fault, id) ==
  IF id \notin Keys(d)
  THEN [task_dict |-> d, max_id |-> m, doc |-> file, exc |-> "KeyError", ret |-> 0]
  ELSE
    LET d2 == DelItem(d, id)
        s == save(which, d2, file, fault)
    IN [task_dict |-> d2, max_id |-> IF Len(d2) > 0 THEN MaxKey(d2) ELSE 0,
        doc |-> s.doc, exc |-> s.exc, ret |-> 0]

\* TaskManager.delete_task
delete_task(which, d, m, file, fault, id) ==
  IF id \notin Keys(d)
  THEN [task_dict |-> d, max_id |-> m, doc |-> file, exc |-> "KeyError", ret |-> 0]
  ELSE
    LET d2 == DelItem(d, id)
        s == save(which, d2, file, fault)
    IN [task_dict |-> d2, max_id |-> m, doc |-> s.doc, exc |-> s.exc, ret |-> 0]

\* TaskManager.delete_all_tasks
delete_all_tasks(which, d, m, file, fault) ==
  LET s == save(which, <<>>, file, fault)
  IN [task_dict |-> <<>>, max_id |-> m, doc |-> s.doc, exc |-> s.exc, ret |-> 0]

TitleLess(a, b) == StrLess(a[2].title, b[2].title)

DueDateLess(a, b) == DateLess(a[2].due_date, b[2].due_date)

\* list_tasks taking an omitted filter for completed=False
list_tasks_default_false(d, sort_by, completed, reverse) ==
  LET want == IF completed.some THEN completed.val ELSE FALSE
      Wanted(p) == p[2].completed = want
      filtered == SelectSeq(d, Wanted)
      ordered == IF sort_by.some /\ sort_by.val = "title"
                   THEN sorted(filtered, TitleLess)
                 ELSE IF sort_by.some /\ sort_by.val = "due_date"
                   THEN sorted(filtered, DueDateLess)
                 ELSE filtered
  IN IF reverse THEN reversed(ordered) ELSE ordered

\* list_tasks sorting in descending order instead of reversing the result
list_tasks_sorted_descending(d, sort_by, completed, reverse) ==
  LET Wanted(p) == p[2].completed = completed.val
      TitleMore(a, b) == TitleLess(b, a)
      DueDateMore(a, b) == DueDateLess(b, a)
      filtered == IF completed.some THEN SelectSeq(d, Wanted) ELSE d
  IN IF sort_by.some /\ sort_by.val = "title"
       THEN IF reverse THEN sorted(filtered, TitleMore)
            ELSE sorted(filtered, TitleLess)
     ELSE IF sort_by.some /\ sort_by.val = "due_date"
       THEN IF reverse THEN sorted(filtered, DueDateMore)
            ELSE sorted(filtered, DueDateLess)
     ELSE IF reverse THEN reversed(filtered) ELSE filtered

\* TaskManager.list_tasks
list_tasks(d, sort_by, completed, reverse) ==
  LET Wanted(p) == p[2].completed = completed.val
      filtered == IF completed.some THEN SelectSeq(d, Wanted) ELSE d
      ordered == IF sort_by.some /\ sort_by.val = "title"
                   THEN sorted(filtered, TitleLess)
                 ELSE IF sort_by.some /\ sort_by.val = "due_date"
                   THEN sorted(filtered, DueDateLess)
                 ELSE filtered
  IN IF reverse THEN reversed(ordered) ELSE ordered

\* TaskManager.validate_title
validate_title(title) ==
  IF title = <<>> THEN Raise("ArgumentError") ELSE Ok(title)

\* TaskManager.validate_due_date
validate_due_date(due_date) ==
  LET p == fromisoformat(due_date)
  IN IF p.exc = "ValueError" THEN Raise("ArgumentError")
     ELSE IF ~p.val.tzinfo.some THEN Ok(astimezone(p.val))
     ELSE Ok(p.val)

\* validate_id refusing only negative numbers
validate_id_nonneg(id) ==
  LET p == int(id)
  IN IF p.exc = "ValueError" THEN Raise("ArgumentError")
     ELSE IF p.val < 0 THEN Raise("ArgumentError")
     ELSE Ok(p.val)

\* TaskManager.validate_id
validate_id(id) ==
  LET p == int(id)
  IN IF p.exc = "ValueError" THEN Raise("ArgumentError")
     ELSE IF p.val <= 0 THEN Raise("ArgumentError")
     ELSE Ok(p.val)

\* validate_unused_id without the membership test
validate_unused_id_unchecked(d, id) == validate_id(id)

\* TaskManager.validate_unused_id
validate_unused_id(d, id) ==
  LET v == validate_id(id)
  IN IF v.exc # "none" THEN v
     ELSE IF v.val \in Keys(d) THEN Raise("ArgumentError")
     ELSE v

\* TaskManager.validate_used_id
validate_used_id(d, id) ==
  LET v == validate_id(id)
  IN IF v.exc # "none" THEN v
     ELSE IF v.val \notin Keys(d) THEN Raise("ArgumentError")
     ELSE v

-----------------------------------------------------------------------------
(* History bookkeeping *)

\* the fields an update supplies: this is an update that supplies none
NoFields == [title |-> None, due_date |-> None, description |-> None,
             completed |-> None]

Last(op, outcome, explicit, req, id) ==
  [op |-> op, outcome |-> outcome, explicit |-> explicit, req |-> req, id |-> id,
   fields |-> NoFields]

Outcome(exc) == IF exc = "none" THEN "ok" ELSE exc

\* the environment makes save() fail while it has failures left to inject
Inject(fault) ==
  /\ fault # "none" => faults > 0
  /\ faults' = IF fault = "none" THEN faults ELSE faults - 1

\* the tasks with the ids in S were deleted
Retire(S) == retired' = IF track = "ids" THEN retired \cup S ELSE retired

\* an operation other than add-without-id ran
NotOnlyAuto ==
  /\ only_auto' = FALSE
  /\ auto_ids' = <<>>

\* the id a request text asks for, 0 when it is not a number
Requested(text) == LET p == int(text) IN IF p.exc = "none" THEN p.val ELSE 0

\* the request was refused by the front end: no store operation ran
Rejected(op, explicit, req) ==
  /\ last' = Last(op, "ArgumentError", explicit, req, 0)
  /\ UNCHANGED <<impl, task_dict, max_id, doc, faults, track, retired, auto_ids,
                 only_auto, listed, widgets>>

\* add_task ran with result r
Added(r, id) ==
  /\ Len(r.task_dict) <= MaxTasks
  /\ r.ret <= MaxId
  /\ task_dict' = r.task_dict
  /\ max_id' = r.max_id
  /\ doc' = r.doc
  /\ last' = Last("add", Outcome(r.exc), id.some,
                  IF id.some THEN id.val ELSE 0, r.ret)
  /\ IF ~id.some /\ only_auto
       THEN /\ auto_ids' = Append(auto_ids, r.ret)
            /\ UNCHANGED only_auto
       ELSE NotOnlyAuto
  /\ UNCHANGED <<impl, track, retired, listed>>

\* update_task ran on the fields f with result r; no caller redraws the rows
Updated(r, id, f) ==
  /\ task_dict' = r.task_dict
  /\ max_id' = r.max_id
  /\ doc' = r.doc
  /\ last' = [Last("update", Outcome(r.exc), TRUE, id, id)
                EXCEPT !.fields = IF track = "fields" THEN f ELSE NoFields]
  /\ NotOnlyAuto
  /\ UNCHANGED <<impl, track, retired, listed, widgets>>

\* delete_task ran with result r
Deleted(r, id) ==
  /\ task_dict' = r.task_dict
  /\ max_id' = r.max_id
  /\ doc' = r.doc
  /\ last' = Last("delete", Outcome(r.exc), TRUE, id, id)
  /\ Retire(Keys(task_dict) \ Keys(r.task_dict))
  /\ NotOnlyAuto
  /\ UNCHANGED <<impl, track, listed>>

-----------------------------------------------------------------------------
(* Starting a process *)

\* a new process constructs its TaskManager from todo.json
Restart ==
  LET s == TaskManager_init(doc)
  IN /\ s.exc = "none"
     /\ task_dict' = s.val.task_dict
     /\ max_id' = s.val.max_id
     /\ last' = Last("load", "ok", FALSE, 0, 0)
     /\ only_auto' = (track = "ids" /\ s.val.task_dict = <<>>)
     /\ auto_ids' = <<>>
     /\ UNCHANGED <<impl, doc, faults, track, retired, listed, widgets>>

-----------------------------------------------------------------------------
(* cli() *)

\* argparse runs the type= validators of the add subcommand, then add_task.
\* The earlier iteration takes the title as it comes (type=str).
CliAdd(title, due_date, description, completed, id, fault) ==
  LET t == IF impl = "legacy" THEN Ok(title) ELSE validate_title(title)
      dd == validate_due_date(due_date)
      i == IF id.some THEN validate_unused_id(task_dict, id.val) ELSE Ok(0)
  IN IF t.exc # "none" \/ dd.exc # "none" \/ i.exc # "none"
     THEN /\ fault = "none"
          /\ Rejected("add", id.some, IF id.some THEN Requested(id.val) ELSE 0)
     ELSE LET arg == IF id.some THEN Some(i.val) ELSE None
          IN /\ Inject(fault)
             /\ Added(add_task(impl, task_dict, max_id, doc, fault, t.val,
                               dd.val, description, completed, arg), arg)
             /\ UNCHANGED widgets

\* the update subcommand
CliUpdate(id, title, due_date, description, completed, fault) ==
  LET i == validate_used_id(task_dict, id)
      t == IF ~title.some THEN Ok(None)
           ELSE IF impl = "legacy" THEN Ok(title)
           ELSE LET v == validate_title(title.val)
                IN IF v.exc = "none" THEN Ok(Some(v.val)) ELSE v
      dd == IF ~due_date.some THEN Ok(None)
            ELSE LET v == validate_due_date(due_date.val)
                 IN IF v.exc = "none" THEN Ok(Some(v.val)) ELSE v
  IN IF i.exc # "none" \/ t.exc # "none" \/ dd.exc # "none"
     THEN /\ fault = "none"
          /\ Rejected("update", TRUE, 0)
     ELSE /\ Inject(fault)
          /\ Updated(update_task(impl, task_dict, max_id, doc, fault, i.val,
                                 t.val, dd.val, description, completed),
                     i.val,
                     [title |-> t.val, due_date |-> dd.val,
                      description |-> description, completed |-> completed])

\* delete --id
CliDelete(id, fault) ==
  LET i == validate_used_id(task_dict, id)
  IN IF i.exc # "none"
     THEN /\ fault = "none"
          /\ Rejected("delete", TRUE, 0)
     ELSE /\ Inject(fault)
          /\ Deleted(delete_task(impl, task_dict, max_id, doc, fault, i.val),
                     i.val)
          /\ UNCHANGED widgets

\* delete --all, answered with "y" or with anything else
CliDeleteAll(answer, fault) ==
  IF answer = "y"
  THEN LET r == delete_all_tasks(impl, task_dict, max_id, doc, fault)
       IN /\ Inject(fault)
          /\ task_dict' = r.task_dict
          /\ max_id' = r.max_id
          /\ doc' = r.doc
          /\ last' = Last("delete_all", Outcome(r.exc), FALSE, 0, 0)
          /\ Retire(Keys(task_dict))
          /\ NotOnlyAuto
          /\ UNCHANGED <<impl, track, listed, widgets>>
  ELSE /\ fault = "none"
       /\ last' = Last("delete_all", "declined", FALSE, 0, 0)
       /\ UNCHANGED <<impl, task_dict, max_id, doc, faults, track, retired,
                      auto_ids, only_auto, listed, widgets>>

\* the list subcommand
CliList(sort_by, completed, reverse) ==
  /\ listed' = Some([sort_by |-> sort_by, completed |-> completed,
                     reverse |-> reverse,
                     tasks |-> list_tasks(task_dict, sort_by, completed, reverse)])
  /\ last' = Last("list", "ok", FALSE, 0, 0)
  /\ UNCHANGED <<impl, task_dict, max_id, doc, faults, track, retired, auto_ids,
                 only_auto, widgets>>

-----------------------------------------------------------------------------
(* gui() *)

\* str.split(",") of the values the sort dropdown offers
split(v) ==
  IF v = "title, reversed" THEN <<"title", " reversed">>
  ELSE IF v = "due_date, reversed" THEN <<"due_date", " reversed">>
  ELSE <<v>>

sort_options == {"", "title", "title, reversed", "due_date", "due_date, reversed"}

filter_options == <<"", "completed", "uncompleted">>

\* the task with this id has a row in the list
Displayed(id) == \E i \in DOMAIN rows : rows[i] = id

\* the ids of s that are not in seen, in the order they have in s
RECURSIVE NewKeys(_, _)
NewKeys(s, seen) ==
  IF s = <<>> THEN <<>>
  ELSE IF s[1] \in seen THEN NewKeys(Tail(s), seen)
  ELSE <<s[1]>> \o NewKeys(Tail(s), seen \cup {s[1]})

\* what gui.refresh_list draws for the dropdown values sv and fv and the
\* mapping d
Drawn(sv, fv, d) ==
  LET sort_split == split(sv)
      sort_by == IF Len(sort_split) > 0 THEN Some(sort_split[1]) ELSE None
      reverse == IF Len(sort_split) > 1 THEN sort_split[2] = " reversed" ELSE FALSE
      completed == IF fv = "" THEN None ELSE Some(fv = filter_options[2])
      tasks == list_tasks(d, sort_by, completed, reverse)
  IN [i \in DOMAIN tasks |-> tasks[i][1]]

\* gui.refresh_list, where the form is shown
Redraw(sv, fv, d) ==
  IF display
  THEN LET ids == Drawn(sv, fv, d)
       IN /\ rows' = ids
          /\ checkbox_vars' =
               checkbox_vars \o NewKeys(ids, {checkbox_vars[i] : i \in DOMAIN checkbox_vars})
          /\ sort_var' = sv
          /\ filter_var' = fv
          /\ UNCHANGED display
  ELSE UNCHANGED widgets

refresh_list(d) == Redraw(sort_var, filter_var, d)

\* gui.add_task_gui
add_task_gui(title_entry, due_date_entry, desc_entry, id_entry, fault) ==
  LET title_str == strip(title_entry)
      due_date_str == strip(due_date_entry)
      description == strip(desc_entry)
      id_str == strip(id_entry)
      t == validate_title(title_str)
      dd == validate_due_date(due_date_str)
      i == IF id_str # <<>> THEN validate_unused_id(task_dict, id_str) ELSE Ok(0)
  IN IF t.exc # "none" \/ dd.exc # "none" \/ i.exc # "none"
     THEN /\ fault = "none"
          /\ Rejected("add", id_str # <<>>, Requested(id_str))
     ELSE LET arg == IF id_str # <<>> THEN Some(i.val) ELSE None
          IN /\ Inject(fault)
             /\ LET r == add_task(impl, task_dict, max_id, doc, fault, t.val,
                                  dd.val, description, FALSE, arg)
                IN /\ Added(r, arg)
                   /\ IF r.exc = "none" THEN refresh_list(r.task_dict)
                      ELSE UNCHANGED widgets

\* gui.edit_task_field, for a displayed row
edit_task_field(id, field, entry, fault) ==
  LET new_value == strip(entry)
      v == IF field = "title" THEN validate_title(new_value)
           ELSE IF field = "due_date" THEN validate_due_date(new_value)
           ELSE Ok(new_value)
  IN /\ id \in Keys(task_dict)
     /\ display => Displayed(id)
     /\ IF v.exc # "none"
        THEN /\ fault = "none"
             /\ Rejected("update", TRUE, 0)
        ELSE /\ Inject(fault)
             /\ LET f == [title |-> IF field = "title" THEN Some(v.val) ELSE None,
                          due_date |-> IF field = "due_date" THEN Some(v.val)
                                       ELSE None,
                          description |-> IF field = "description"
                                          THEN Some(v.val) ELSE None,
                          completed |-> None]
                IN Updated(update_task(impl, task_dict, max_id, doc, fault, id,
                                       f.title, f.due_date, f.description,
                                       f.completed),
                           id, f)

\* gui.toggle_completion_gui, for a displayed row
toggle_completion_gui(id, fault) ==
  /\ id \in Keys(task_dict)
  /\ display => Displayed(id)
  /\ Inject(fault)
  /\ LET completed == Some(~GetItem(task_dict, id).completed)
     IN Updated(update_task(impl, task_dict, max_id, doc, fault, id, None, None,
                            None, completed),
                id, [NoFields EXCEPT !.completed = completed])

\* gui.delete_task_gui, for a displayed row: the row and its checkbox variable
\* go first, then the task
delete_task_gui(id, fault) ==
  /\ display
  /\ Displayed(id)
  /\ UNCHANGED <<display, sort_var, filter_var>>
  /\ rows' = SelectSeq(rows, LAMBDA k : k # id)
  /\ IF \E i \in DOMAIN checkbox_vars : checkbox_vars[i] = id
     THEN /\ checkbox_vars' = SelectSeq(checkbox_vars, LAMBDA k : k # id)
          /\ Inject(fault)
          /\ Deleted(delete_task(impl, task_dict, max_id, doc, fault, id), id)
     ELSE /\ fault = "none"
          /\ last' = Last("delete", "KeyError", TRUE, id, id)
          /\ UNCHANGED <<impl, task_dict, max_id, doc, faults, track, retired,
                         auto_ids, only_auto, listed, checkbox_vars>>

\* gui.delete_all_tasks_gui.  The loop deletes from checkbox_vars while
\* iterating over it: with a key in it, the first pass deletes that key and
\* the iterator then raises RuntimeError, which ends the callback.
delete_all_tasks_gui(askyesno, fault) ==
  /\ display
  /\ IF ~askyesno
     THEN /\ fault = "none"
          /\ last' = Last("delete_all", "declined", FALSE, 0, 0)
          /\ UNCHANGED <<impl, task_dict, max_id, doc, faults, track, retired,
                         auto_ids, only_auto, listed, widgets>>
     ELSE IF checkbox_vars # <<>>
     THEN /\ fault = "none"
          /\ checkbox_vars' = Tail(checkbox_vars)
          /\ last' = Last("delete_all", "RuntimeError", FALSE, 0, 0)
          /\ UNCHANGED <<impl, task_dict, max_id, doc, faults, track, retired,
                         auto_ids, only_auto, listed, display, sort_var,
                         filter_var, rows>>
     ELSE LET r == delete_all_tasks(impl, task_dict, max_id, doc, fault)
          IN /\ Inject(fault)
             /\ task_dict' = r.task_dict
             /\ max_id' = r.max_id
             /\ doc' = r.doc
             /\ last' = Last("delete_all", Outcome(r.exc), FALSE, 0, 0)
             /\ Retire(Keys(task_dict))
             /\ NotOnlyAuto
             /\ IF r.exc = "none" THEN refresh_list(r.task_dict)
                ELSE UNCHANGED widgets
             /\ UNCHANGED <<impl, track, listed>>

\* <<ComboboxSelected>> on the sort dropdown
sort_combobox_selected(v) ==
  /\ display
  /\ Redraw(v, filter_var, task_dict)
  /\ last' = Last("refresh", "ok", FALSE, 0, 0)
  /\ UNCHANGED <<impl, task_dict, max_id, doc, faults, track, retired, auto_ids,
                 only_auto, listed>>

\* <<ComboboxSelected>> on the filter dropdown
filter_combobox_selected(v) ==
  /\ display
  /\ Redraw(sort_var, v, task_dict)
  /\ last' = Last("refresh", "ok", FALSE, 0, 0)
  /\ UNCHANGED <<impl, task_dict, max_id, doc, faults, track, retired, auto_ids,
                 only_auto, listed>>

-----------------------------------------------------------------------------
(* Callers that use a TaskManager directly, with whatever id they hold *)

StoreAdd(title, due_date, description, completed, id, fault) ==
  /\ Inject(fault)
  /\ Added(add_task(impl, task_dict, max_id, doc, fault, title, due_date,
                    description, completed, id), id)
  /\ UNCHANGED widgets

StoreUpdate(id, title, due_date, description, completed, fault) ==
  /\ Inject(fault)
  /\ Updated(update_task(impl, task_dict, max_id, doc, fault, id, title,
                         due_date, description, completed),
             id,
             [title |-> title, due_date |-> due_date,
              description |-> description, completed |-> completed])

StoreDelete(id, fault) ==
  /\ Inject(fault)
  /\ Deleted(delete_task(impl, task_dict, max_id, doc, fault, id), id)
  /\ UNCHANGED widgets

-----------------------------------------------------------------------------
(* Inputs *)

Titles == {<<>>, <<"a">>}
DueTexts == {<<"D0">>, <<"?">>}
Descriptions == {<<>>}
BadIdTexts == {<<"0">>, <<"-", "1">>, <<"x">>}
IdTexts == BadIdTexts \cup {str(k) : k \in 1..MaxId}

\* what the user typed into the entry fields of the form
RawTitles == {<<" ">>, <<" ", "a">>}
RawDueTexts == {<<" ", "D0">>, <<"?">>}
RawDescriptions == {<<" ">>}
RawIdTexts == {<<>>, <<"0">>} \cup {<<" ">> \o str(k) : k \in 1..MaxId}

Optional(S) == {None} \cup {Some(x) : x \in S}

DueDates == {validate_due_date(<<"D0">>).val}

One(p) == IF p THEN 1 ELSE 0

\* add requests: every well-formed task with every id a user may ask for (or
\* none), and one request for each way of being malformed
AddRequests ==
  {r \in [title : Titles, due_date : DueTexts, description : Descriptions,
          completed : BOOLEAN, id : Optional(IdTexts)] :
     LET bad == One(r.title = <<>>) + One(r.due_date = <<"?">>)
                + One(r.id.some /\ r.id \in Optional(BadIdTexts))
     IN bad = 0 \/ (bad = 1 /\ r.description = <<>> /\ ~r.completed)}

\* the same for the form
FormRequests ==
  {r \in [title : RawTitles, due_date : RawDueTexts, description : RawDescriptions,
          id : RawIdTexts] :
     LET bad == One(r.title = <<" ">>) + One(r.due_date = <<"?">>)
                + One(r.id = <<"0">>)
     IN bad = 0 \/ (bad = 1 /\ r.description = <<" ">>)}

\* the fields an update request supplies: none, one, or two
UpdateFields(T, D) ==
  {NoFields,
   [NoFields EXCEPT !.description = Some(<<>>), !.completed = Some(TRUE)]}
    \cup {[NoFields EXCEPT !.title = Some(t)] : t \in T}
    \cup {[NoFields EXCEPT !.due_date = Some(d)] : d \in D}
    \cup {[NoFields EXCEPT !.description = Some(x)] : x \in Descriptions}
    \cup {[NoFields EXCEPT !.completed = Some(b)] : b \in BOOLEAN}

CliUpdates == UpdateFields(Titles, DueTexts)

\* an update request names an id with any fields, or a bad id with none
UpdateRequests ==
  {r \in [id : IdTexts, fields : CliUpdates] :
     r.id \in BadIdTexts => r.fields = NoFields}

\* a direct caller's update: some fields, of the types update_task declares
StoreUpdates ==
  {NoFields, [NoFields EXCEPT !.completed = Some(TRUE)]}
    \cup {[NoFields EXCEPT !.description = Some(<<>>), !.due_date = Some(x)] :
            x \in DueDates}

\* what the environment may do to the next save()
FaultChoices == IF faults > 0 THEN Faults ELSE {"none"}

-----------------------------------------------------------------------------
(* Specifications *)

InitHistory ==
  /\ last = Last("init", "ok", FALSE, 0, 0)
  /\ retired = {}
  /\ auto_ids = <<>>
  /\ only_auto = (track = "ids")
  /\ listed = None

\* the command line: gui() does not run
NoDisplay ==
  /\ display = FALSE
  /\ sort_var = ""
  /\ filter_var = ""
  /\ rows = <<>>
  /\ checkbox_vars = <<>>

\* src/src/zolldo/zolldo.py, first run: there is no todo.json
Init ==
  /\ impl = "current"
  /\ doc = NoFile
  /\ task_dict = <<>>
  /\ max_id = 0
  /\ faults = 0
  /\ track = "none"
  /\ InitHistory
  /\ NoDisplay

\* the same, with the history of ids recorded
InitIds ==
  /\ impl = "current"
  /\ doc = NoFile
  /\ task_dict = <<>>
  /\ max_id = 0
  /\ faults = 0
  /\ track = "ids"
  /\ InitHistory
  /\ NoDisplay

NextCli ==
  \/ Restart
  \/ \E r \in AddRequests, fault \in FaultChoices :
       CliAdd(r.title, r.due_date, r.description, r.completed, r.id, fault)
  \/ \E r \in UpdateRequests, fault \in FaultChoices :
       CliUpdate(r.id, r.fields.title, r.fields.due_date, r.fields.description,
                 r.fields.completed, fault)
  \/ \E id \in IdTexts, fault \in FaultChoices : CliDelete(id, fault)
  \/ \E answer \in {"y", "n"}, fault \in FaultChoices : CliDeleteAll(answer, fault)
  \/ \E id \in 1..MaxId, f \in StoreUpdates, fault \in FaultChoices :
       StoreUpdate(id, f.title, f.due_date, f.description, f.completed, fault)
  \/ \E id \in 1..MaxId, fault \in FaultChoices : StoreDelete(id, fault)

NextGui ==
  \/ \E r \in FormRequests, fault \in FaultChoices :
       add_task_gui(r.title, r.due_date, r.description, r.id, fault)
  \/ \E id \in 1..MaxId, entry \in RawTitles, fault \in FaultChoices :
       edit_task_field(id, "title", entry, fault)
  \/ \E id \in 1..MaxId, entry \in RawDueTexts, fault \in FaultChoices :
       edit_task_field(id, "due_date", entry, fault)
  \/ \E id \in 1..MaxId, entry \in RawDescriptions, fault \in FaultChoices :
       edit_task_field(id, "description", entry, fault)
  \/ \E id \in 1..MaxId, fault \in FaultChoices : toggle_completion_gui(id, fault)

Next == NextCli \/ NextGui

Spec == Init /\ [][Next]_vars


\* src/src/zolldo/zolldo.py on a file system that fails MaxFaults times
InitFaults ==
  /\ impl = "current"
  /\ doc = NoFile
  /\ task_dict = <<>>
  /\ max_id = 0
  /\ faults = MaxFaults
  /\ track = "none"
  /\ InitHistory
  /\ NoDisplay

\* the command line alone, with requests that differ in id and completion only
NextCore ==
  \/ Restart
  \/ \E title \in Titles, completed \in BOOLEAN, fault \in FaultChoices :
       CliAdd(title, <<"D0">>, <<>>, completed, None, fault)
  \/ \E id \in IdTexts \ BadIdTexts, completed \in BOOLEAN, fault \in FaultChoices :
       CliUpdate(id, None, None, None, Some(completed), fault)
  \/ \E id \in IdTexts \ BadIdTexts, fault \in FaultChoices : CliDelete(id, fault)
  \/ \E fault \in FaultChoices : CliDeleteAll("y", fault)
  \/ \E id \in 1..MaxId, fault \in FaultChoices :
       StoreUpdate(id, None, None, None, Some(TRUE), fault)
  \/ \E id \in 1..MaxId, fault \in FaultChoices : StoreDelete(id, fault)

SpecFaults == InitFaults /\ [][NextCore]_vars

\* every operation that assigns or frees an id: the command line, and the
\* form's add with and without an id
NextIds ==
  \/ NextCore
  \/ \E r \in FormRequests, fault \in FaultChoices :
       add_task_gui(r.title, r.due_date, r.description, r.id, fault)

SpecIds == InitIds /\ [][NextIds]_vars

\* the mappings of at most MaxTasks well-formed tasks
TaskValues ==
  [title : Titles \ {<<>>}, due_date : DueDates, description : Descriptions,
   completed : BOOLEAN]

Mappings ==
  {d \in UNION {[1..n -> (1..MaxId) \X TaskValues] : n \in 0..MaxTasks} :
     \A i, j \in DOMAIN d : d[i][1] = d[j][1] => i = j}

\* src/zolldo.py, started where todo.json is absent or was written by the
\* other iteration
InitLegacy ==
  /\ impl = "legacy"
  /\ doc \in {NoFile} \cup {dump(d) : d \in {m \in Mappings : Len(m) <= 1}}
  /\ task_dict = TaskManager_init(doc).val.task_dict
  /\ max_id = TaskManager_init(doc).val.max_id
  /\ faults = 0
  /\ track = "none"
  /\ InitHistory
  /\ NoDisplay

SpecLegacy == InitLegacy /\ [][NextCore]_vars

\* tasks that differ in every field, for the update operation
FieldTitles == {<<"a">>, <<"b">>}
FieldDueTexts == {<<"D0">>, <<"D1", "Z">>}
FieldDueDates == {validate_due_date(x).val : x \in FieldDueTexts}
FieldDescriptions == {<<>>, <<"d">>}

FieldTaskValues ==
  [title : FieldTitles, due_date : FieldDueDates,
   description : FieldDescriptions, completed : BOOLEAN]

\* one or two such tasks under the ids 1 and 2
FieldMappings ==
  {d \in UNION {[1..n -> (1..2) \X FieldTaskValues] : n \in 1..2} :
     \A i, j \in DOMAIN d : d[i][1] = d[j][1] => i = j}

\* updates that supply no field, one field, or an empty description and
\* completed=False, alone or together with a title and a due date
FieldChoices(T, D) ==
  {f \in [title : Optional(T), due_date : Optional(D),
          description : Optional(FieldDescriptions),
          completed : Optional(BOOLEAN)] :
     \/ One(f.title.some) + One(f.due_date.some) + One(f.description.some)
          + One(f.completed.some) <= 1
     \/ /\ f.description = Some(<<>>) /\ f.completed = Some(FALSE)
        /\ f.title.some = f.due_date.some}

\* src/src/zolldo/zolldo.py, started on a todo.json that holds such tasks
InitUpdate ==
  /\ impl = "current"
  /\ doc \in {dump(d) : d \in FieldMappings}
  /\ task_dict = TaskManager_init(doc).val.task_dict
  /\ max_id = TaskManager_init(doc).val.max_id
  /\ faults = 0
  /\ track = "fields"
  /\ InitHistory
  /\ NoDisplay

\* every caller of update_task
NextUpdate ==
  \/ \E id \in 1..MaxId, f \in FieldChoices(FieldTitles, FieldDueTexts) :
       CliUpdate(str(id), f.title, f.due_date, f.description, f.completed, "none")
  \/ \E id \in 1..MaxId, f \in FieldChoices(FieldTitles, FieldDueDates) :
       StoreUpdate(id, f.title, f.due_date, f.description, f.completed, "none")
  \/ \E id \in 1..MaxId, entry \in {<<" ">>, <<" ", "b">>} :
       edit_task_field(id, "title", entry, "none")
  \/ \E id \in 1..MaxId, entry \in {<<"D1", "Z">>, <<"?">>} :
       edit_task_field(id, "due_date", entry, "none")
  \/ \E id \in 1..MaxId, entry \in {<<" ">>, <<"d", " ">>} :
       edit_task_field(id, "description", entry, "none")
  \/ \E id \in 1..MaxId : toggle_completion_gui(id, "none")

SpecUpdate == InitUpdate /\ [][NextUpdate]_vars

\* tasks that differ in title and completion, for the list operation: in code
\* point order "B" < "a" < "ab"
ListTitles == {<<"a">>, <<"a", "b">>, <<"B">>}

ListTaskValues ==
  [title : ListTitles, due_date : DueDates, description : Descriptions,
   completed : BOOLEAN]

ListMappings ==
  {d \in UNION {[1..n -> (1..MaxId) \X ListTaskValues] : n \in 0..MaxTasks} :
     \A i, j \in DOMAIN d : d[i][1] = d[j][1] => i = j}

\* src/src/zolldo/zolldo.py, started on a todo.json that holds such tasks
InitList ==
  /\ impl = "current"
  /\ doc \in {dump(d) : d \in ListMappings}
  /\ task_dict = TaskManager_init(doc).val.task_dict
  /\ max_id = TaskManager_init(doc).val.max_id
  /\ faults = 0
  /\ track = "none"
  /\ InitHistory
  /\ NoDisplay

\* zolldo list [--sort_by ..] [--completed | --uncompleted] [--reverse]
NextList ==
  \E sort_by \in Optional({"title", "due_date"}), completed \in Optional(BOOLEAN),
     reverse \in BOOLEAN :
    CliList(sort_by, completed, reverse)

SpecList == InitList /\ [][NextList]_vars

\* due dates typed without an offset, in UTC, and with the local offset
ZonedDueTexts == {<<"D0">>, <<"D1", "Z">>, <<"D1", "+01:00">>}

\* the command line and the form's due date entry, with such due dates and
\* with ids asked for in any order
NextZoned ==
  \/ Restart
  \/ \E due_date \in ZonedDueTexts, id \in Optional({str(k) : k \in 1..MaxId}) :
       CliAdd(<<"a">>, due_date, <<>>, FALSE, id, "none")
  \/ \E id \in 1..MaxId, due_date \in ZonedDueTexts :
       CliUpdate(str(id), None, Some(due_date), None, None, "none")
  \/ \E id \in 1..MaxId, entry \in ZonedDueTexts :
       edit_task_field(id, "due_date", entry, "none")
  \/ \E id \in 1..MaxId : CliDelete(str(id), "none")

SpecZoned == Init /\ [][NextZoned]_vars

\* the command line, and callers that add to the TaskManager directly under
\* any id, one in use included
NextStore ==
  \/ NextCore
  \/ \E completed \in BOOLEAN, id \in Optional(0..MaxId) :
       StoreAdd(<<"a">>, CHOOSE x \in DueDates : TRUE, <<>>, completed, id, "none")

SpecStore == Init /\ [][NextStore]_vars

\* zolldo gui, started where todo.json is absent or holds one task: gui() has
\* drawn the rows once and waits in mainloop
InitGui ==
  /\ impl = "current"
  /\ doc \in {NoFile} \cup {dump(d) : d \in {m \in Mappings : Len(m) <= 1}}
  /\ task_dict = TaskManager_init(doc).val.task_dict
  /\ max_id = TaskManager_init(doc).val.max_id
  /\ faults = 0
  /\ track = "none"
  /\ InitHistory
  /\ display = TRUE
  /\ sort_var = ""
  /\ filter_var = ""
  /\ rows = Drawn("", "", task_dict)
  /\ checkbox_vars = rows

\* the callbacks of the form.  The due dates are all equal here, so sorting by
\* due date would draw what the other choices draw.
NextForm ==
  \/ NextGui
  \/ \E id \in 1..MaxId : delete_task_gui(id, "none")
  \/ \E askyesno \in BOOLEAN : delete_all_tasks_gui(askyesno, "none")
  \/ \E v \in sort_options \ {"due_date", "due_date, reversed"} :
       sort_combobox_selected(v)
  \/ \E v \in {filter_options[i] : i \in DOMAIN filter_options} :
       filter_combobox_selected(v)

SpecGui == InitGui /\ [][NextForm]_vars

-----------------------------------------------------------------------------
(* Properties *)

StoreUnchanged == task_dict' = task_dict /\ max_id' = max_id /\ doc' = doc

AddedAuto == last.op = "add" /\ ~last.explicit /\ last.outcome = "ok"

AddedExplicit == last.op = "add" /\ last.explicit /\ last.outcome = "ok"

\* the file holds a document that decodes to the mapping d
Encodes(file, d) ==
  /\ file.kind = "json"
  /\ LET l == load(file.body)
     IN /\ Keys(l) = Keys(d)
        /\ \A k \in Keys(d) : GetItem(l, k) = GetItem(d, k)

\* C1: an add without explicit id never returns an id that belonged to a
\* task deleted earlier, whatever loads, adds, updates and deletes came before.
C1_NoAutoReuse == AddedAuto => last.id \notin retired

\* C2: max_id is at least every key of the mapping, and at least 0.
C2_MaxIdBound == max_id >= 0 /\ \A k \in Keys(task_dict) : k <= max_id

C2_Witness ==
  /\ last.op = "delete" /\ last.outcome = "ok"
  /\ task_dict # <<>>
  /\ max_id > MaxKey(task_dict)

\* C3: from a store constructed empty, the ids assigned by successive adds
\* without explicit id are positive, strictly increasing, and start at 1.
C3_AutoIds ==
  only_auto =>
    /\ \A i \in DOMAIN auto_ids : auto_ids[i] > 0
    /\ \A i, j \in DOMAIN auto_ids : i < j => auto_ids[i] < auto_ids[j]
    /\ auto_ids # <<>> => auto_ids[1] = 1

C3_Witness == only_auto /\ Len(auto_ids) = MaxTasks /\ last.op = "add"

\* C4: add(id=K) returns K and leaves max_id = max(K, previous max_id); the
\* add without id that comes next returns that max_id + 1, which is
\* max(K, previous max_id) + 1.
C4_ExplicitAdd ==
  [][/\ (last'.op = "add" /\ last'.explicit /\ last'.outcome = "ok")
          => /\ last'.id = last'.req
             /\ max_id' = Max(last'.req, max_id)
     /\ (AddedExplicit /\ last'.op = "add" /\ ~last'.explicit /\ last'.outcome = "ok")
          => /\ max_id >= last.req
             /\ last'.id = max_id + 1]_vars

C4_Witness == AddedExplicit /\ last.req < max_id /\ Len(task_dict) < MaxTasks

\* C5: once a mutating operation that the front end accepted has run on a
\* working file system, it has returned and todo.json encodes the mapping.
C5_Persisted ==
  (last.op \in {"add", "update", "delete", "delete_all"}
     /\ last.outcome \notin {"ArgumentError", "KeyError", "declined", "OSError"})
    => last.outcome = "ok" /\ Encodes(doc, task_dict)

\* C6: an operation that fails (validation, not-found, or inside save) leaves
\* the mapping, max_id and todo.json as they were.
C6_FailureKeepsState ==
  [][last'.outcome \notin {"ok", "declined"} => StoreUnchanged]_vars

\* C7: update of an id that is not a key fails with KeyError and leaves the
\* mapping, max_id and todo.json as they were.
C7_UpdateNotFound ==
  [][(last'.op = "update" /\ last'.outcome # "ArgumentError"
        /\ last'.req \notin Keys(task_dict))
       => last'.outcome = "KeyError" /\ StoreUnchanged]_vars

C7_Witness == last.op = "update" /\ last.outcome = "KeyError" /\ task_dict # <<>>

\* C8: every key of the mapping is a positive integer.
C8_PositiveKeys == \A k \in Keys(task_dict) : k \in Int /\ k > 0

C8_Witness == AddedExplicit /\ last.id \in Keys(task_dict) /\ Len(task_dict) = MaxTasks

\* C9: a request the front end refuses changes nothing; an add that asks for
\* an id in use is refused; what is accepted has a positive unused id, a
\* title that is not empty and a due date that is a point in time.
C9_RejectedAtBoundary ==
  [][/\ last'.outcome = "ArgumentError" => StoreUnchanged
     /\ (last'.op = "add" /\ last'.explicit /\ last'.req \in Keys(task_dict))
          => last'.outcome = "ArgumentError" /\ StoreUnchanged
     /\ (last'.op = "add" /\ last'.explicit /\ last'.outcome # "ArgumentError")
          => last'.req > 0
     /\ last'.op \in {"add", "update"}
          => \A i \in DOMAIN task_dict' :
               /\ task_dict'[i][2].title # <<>>
               /\ task_dict'[i][2].due_date.tzinfo.some]_vars

C9_Witness ==
  /\ last.op = "add" /\ last.explicit /\ last.outcome = "ArgumentError"
  /\ last.req \in Keys(task_dict)

\* C10: delete of a key removes that entry and nothing else, and leaves
\* max_id alone; delete of any other id fails with KeyError and changes nothing.
C10_Delete ==
  [][(last'.op = "delete" /\ last'.outcome # "ArgumentError")
       => IF last'.req \in Keys(task_dict)
          THEN /\ last'.outcome = "ok"
               /\ Keys(task_dict') = Keys(task_dict) \ {last'.req}
               /\ \A k \in Keys(task_dict') :
                    GetItem(task_dict', k) = GetItem(task_dict, k)
               /\ max_id' = max_id
          ELSE last'.outcome = "KeyError" /\ StoreUnchanged]_vars

C10_Witness ==
  /\ last.op = "delete" /\ last.outcome = "ok"
  /\ task_dict # <<>>
  /\ last.req = max_id

\* C11: an update of a key gives each supplied field the supplied value, an
\* empty description and completed=False included, and leaves the other fields
\* of that task, every other task, the keys and their order, and max_id alone.
C11_UpdateFields ==
  [][(last'.op = "update" /\ last'.outcome = "ok")
       => LET id == last'.req
              f == last'.fields
          IN /\ id \in Keys(task_dict)
             /\ [i \in DOMAIN task_dict' |-> task_dict'[i][1]]
                  = [i \in DOMAIN task_dict |-> task_dict[i][1]]
             /\ max_id' = max_id
             /\ \A k \in Keys(task_dict) \ {id} :
                  GetItem(task_dict', k) = GetItem(task_dict, k)
             /\ LET old == GetItem(task_dict, id)
                    new == GetItem(task_dict', id)
                IN /\ new.title = IF f.title.some THEN f.title.val ELSE old.title
                   /\ new.due_date = IF f.due_date.some THEN f.due_date.val
                                     ELSE old.due_date
                   /\ new.description = IF f.description.some
                                        THEN f.description.val
                                        ELSE old.description
                   /\ new.completed = IF f.completed.some THEN f.completed.val
                                      ELSE old.completed]_vars

C11_Witness ==
  /\ last.op = "update" /\ last.outcome = "ok"
  /\ last.fields.description = Some(<<>>)
  /\ last.fields.completed = Some(FALSE)
  /\ ~last.fields.title.some
  /\ Len(task_dict) = 2
  /\ GetItem(task_dict, last.req).title = <<"b">>
  /\ \E k \in Keys(task_dict) :
       GetItem(task_dict, k).completed /\ GetItem(task_dict, k).description # <<>>

\* the ids of a listing
Ids(tasks) == {tasks[i][1] : i \in DOMAIN tasks}

\* C12: a listing filtered by completion and the listing filtered the other
\* way share no id and together hold every key; a listing without a filter
\* holds every key.
C12_ListPartition ==
  listed.some =>
    LET l == listed.val
    IN IF l.completed.some
       THEN LET other == list_tasks(task_dict, l.sort_by,
                                    Some(~l.completed.val), l.reverse)
            IN /\ Ids(l.tasks) \cap Ids(other) = {}
               /\ Ids(l.tasks) \cup Ids(other) = Keys(task_dict)
               /\ \A i \in DOMAIN l.tasks :
                    l.tasks[i][2].completed = l.completed.val
       ELSE Ids(l.tasks) = Keys(task_dict)

C12_Witness ==
  /\ listed.some
  /\ listed.val.completed = Some(TRUE)
  /\ listed.val.tasks # <<>>
  /\ Len(listed.val.tasks) < Len(task_dict)

\* C13: a listing sorted by title holds the filtered tasks with titles that
\* never decrease, equal titles in insertion order; sorted in reverse it is
\* that sequence backwards; not sorted, it is in insertion order.
C13_ListOrder ==
  listed.some =>
    LET l == listed.val
        t == l.tasks
        Wanted(p) == p[2].completed = l.completed.val
        base == IF l.completed.some THEN SelectSeq(task_dict, Wanted)
                ELSE task_dict
    IN /\ (l.sort_by = Some("title") /\ ~l.reverse) =>
            /\ Len(t) = Len(base)
            /\ {t[i] : i \in DOMAIN t} = {base[i] : i \in DOMAIN base}
            /\ \A i, j \in DOMAIN t :
                 i < j =>
                   /\ ~StrLess(t[j][2].title, t[i][2].title)
                   /\ t[i][2].title = t[j][2].title =>
                        IndexOf(task_dict, t[i][1]) < IndexOf(task_dict, t[j][1])
       /\ (l.sort_by = Some("title") /\ l.reverse) =>
            t = reversed(list_tasks(task_dict, l.sort_by, l.completed, FALSE))
       /\ (~l.sort_by.some /\ ~l.reverse) => t = base

C13_Witness ==
  /\ listed.some
  /\ listed.val.sort_by = Some("title")
  /\ ~listed.val.reverse
  /\ Len(listed.val.tasks) = MaxTasks
  /\ listed.val.tasks # task_dict

\* the mappings hold the same integer ids and, under each, the same title,
\* completion and description and due dates that are the same point in time
Equivalent(a, b) ==
  /\ Keys(a) = Keys(b)
  /\ \A k \in Keys(a) :
       /\ k \in Int
       /\ GetItem(a, k).title = GetItem(b, k).title
       /\ GetItem(a, k).completed = GetItem(b, k).completed
       /\ GetItem(a, k).description = GetItem(b, k).description
       /\ GetItem(a, k).due_date.tzinfo.some
       /\ Instant(GetItem(a, k).due_date) = Instant(GetItem(b, k).due_date)

\* C14: in every reachable state, save() followed by the construction of a
\* TaskManager from the saved todo.json gives a mapping equivalent to the one
\* saved.
C14_RoundTrip ==
  LET s == save(impl, task_dict, doc, "none")
      l == TaskManager_init(s.doc)
  IN /\ s.exc = "none"
     /\ l.exc = "none"
     /\ Equivalent(l.val.task_dict, task_dict)

C14_Witness ==
  /\ last.op = "load"
  /\ Len(task_dict) = MaxTasks
  /\ \E i, j \in DOMAIN task_dict :
       /\ task_dict[i][2].due_date.tzinfo = Some(0)
       /\ task_dict[j][2].due_date.tzinfo = Some(LocalUtcOffset)
       /\ i < j /\ task_dict[i][1] > task_dict[j][1]

\* C15: Delete All answered with yes empties the mapping, writes the empty
\* mapping to todo.json and leaves no row in the list, whatever rows are shown;
\* answered with no it changes nothing.
C15_DeleteAllGui ==
  [][/\ (last'.op = "delete_all" /\ last'.outcome # "declined")
          => /\ last'.outcome = "ok"
             /\ task_dict' = <<>>
             /\ Encodes(doc', <<>>)
             /\ rows' = <<>>
     /\ (last'.op = "delete_all" /\ last'.outcome = "declined")
          => StoreUnchanged /\ rows' = rows]_vars

\* C16: an add without explicit id returns an id that was not a key, makes
\* the mapping one task longer and leaves every task that was there as it was,
\* whatever adds under explicit ids, deletes and loads came before.
C16_AutoAddFresh ==
  [][(last'.op = "add" /\ ~last'.explicit /\ last'.outcome = "ok")
       => /\ last'.id \notin Keys(task_dict)
          /\ last'.id \in Keys(task_dict')
          /\ Len(task_dict') = Len(task_dict) + 1
          /\ \A k \in Keys(task_dict) :
               /\ k \in Keys(task_dict')
               /\ GetItem(task_dict', k) = GetItem(task_dict, k)]_vars

C16_Witness ==
  /\ AddedAuto
  /\ Len(task_dict) = MaxTasks
  /\ last.id > Len(task_dict)
  /\ 0 \in Keys(task_dict)

====
